---- MODULE Spec2Model ----
(***************************************************************************)
(* LucidFiles backend: the directory-watch reconciliation loop.            *)
(*                                                                         *)
(* The backend (Node.js) keeps a registry (SQLite tables directories and   *)
(* files), one chokidar watcher per registered directory, and forwards     *)
(* every file operation to the worker over HTTP.  The worker owns the      *)
(* vector store.  A handler is two steps: it issues the worker call, and,  *)
(* when the response has arrived, it updates the registry.  Between the    *)
(* two the event loop runs other handlers.                                 *)
(***************************************************************************)
EXTENDS Integers, Sequences, FiniteSets, TLC

\* ------------------------------------------------------------------ bounds
\* File contents are identified by their digest, 0..MaxDigest.
MaxDigest == 1
\* Handlers (watcher callbacks and API requests) in flight at the same time.
MaxInFlight == 2
\* Readings of the wall clock (new Date()) that differ.
MaxClock == 1
\* Watcher events on one path within one coalescing window.
MaxBurst == 2
\* Results in one search response.
MaxResults == 3
\* Raw scores are the multiples of one step between -MaxScore and MaxScore.
MaxScore == 4

\* ------------------------------------------------------------ the universe
Dirs == {"/d"}
\* The strings under which a client can submit a directory: the path itself,
\* the same path with a trailing separator, and the parent directory.
DirForms == {"/d", "/d/", "/"}
\* The directory that the filesystem resolves a submitted string to.
Resolve(f) == IF f = "/" THEN "/" ELSE "/d"
\* The directories above a directory, itself included.
Ancestors(d) == IF d = "/" THEN {"/"} ELSE {"/", d}
Paths == {"/d/a.txt", "/d/b.bin"}
\* What a request can carry in its path field besides a path: nothing (the
\* field is missing) or a relative name.
BadPaths == {"", "a.txt"}
\* The path is there and absolute.
WellFormed(p) == p \in Paths
DirOf(p) == "/d"
\* chokidar.watch(dirPath, {depth: 99}): the watcher of d sees p.
Under(p, d) == Resolve(d) \in Ancestors(DirOf(p))

Digests == 0 .. MaxDigest
\* disk[p] when p does not exist.
NoFile == -1
\* A response field that is not there (JavaScript undefined).
Undefined == -2
\* SQL NULL.
Null == -3

Slots == 1 .. MaxInFlight

VARIABLES
    disk,         \* the watched filesystem: path -> digest of its bytes, or NoFile
    store,        \* the vector store: a set of points
    cache,        \* the worker's search cache: the entry of the query, if any
    files,        \* registry table files: path -> row, for the paths that have one
    directories,  \* registry table directories: the registered paths
    watchers,     \* watcherManager's Map: the directories with an active watcher
    handles,      \* chokidar: the FSWatcher objects that are open, per watched path
    ops,          \* the file handlers in flight, one per slot
    setdir,       \* the set-directory request in flight per directory
    now,          \* the wall clock
    burst,        \* history: worker calls issued per path by watcher events in the
                  \* current coalescing window
    hist,         \* history: the last two requests that ended
    search,       \* the search request of the UI and the results the UI holds
    proc,         \* the backend process: "starting", "up", "closing" (SIGINT
                  \* taken), "exited"
    ui            \* the React front end: the state of App, useSearch, useDirectories

vars == <<disk, store, cache, files, directories, watchers, handles, ops, setdir, now,
          burst, hist, search, proc, ui>>
core == <<disk, store, cache, files, directories, watchers, handles, ops, setdir, now>>
rest == <<search, proc, ui>>

\* ---------------------------------------------------------------- helpers
\* The parser registry knows the extension of p.
Supported(p) == p = "/d/a.txt"

\* chunk(parse(bytes)): the number of chunks is a function of the bytes alone;
\* the zero-byte file (digest 0) has none.
ChunkCount(d) == d

\* The points of file p with content d: one per chunk, the id derived from
\* (path, digest, chunk index).
PointsFor(p, d) ==
    {[file_path |-> p, file_hash |-> d, chunk_index |-> i] : i \in 0 .. ChunkCount(d) - 1}

\* The points whose payload file_path is p (what delete_by_file(p) removes).
PointsOfFile(p) == {pt \in store : pt.file_path = p}

Free == [pc |-> "free", ev |-> "none", kind |-> "none", path |-> "", checksum |-> Undefined]

FreeSlots == {s \in Slots : ops[s].pc = "free"}

\* The handlers in flight on path p.
InFlight(p) == {s \in Slots : ops[s].pc # "free" /\ ops[s].path = p}

Watched(p) == \E d \in watchers : Under(p, d)

\* The watchers that emit the events of path p, each to its own handlers.
Seeing(p) == {d \in watchers : Under(p, d)}

\* data.checksum || null
OrNull(x) == IF x = Undefined THEN Null ELSE x

\* ------------------------------------------------------------ the registry
\* upsertFile with the conflict branch resetting the status of the row.
upsertFile_ResetsStatus(file) ==
    [q \in DOMAIN files \cup {file.path} |->
        IF q = file.path
        THEN [dir_id |-> IF q \in DOMAIN files THEN files[q].dir_id ELSE file.dir_id,
              checksum |-> file.checksum,
              last_indexed |-> file.last_indexed,
              status |-> IF q \in DOMAIN files THEN "pending" ELSE file.status]
        ELSE files[q]]

\* INSERT INTO files ... ON CONFLICT(path) DO UPDATE SET checksum, last_indexed,
\* status: the row of file.path is written, dir_id only when the row is new.
upsertFile(file) ==
    [q \in DOMAIN files \cup {file.path} |->
        IF q = file.path
        THEN [dir_id |-> IF q \in DOMAIN files THEN files[q].dir_id ELSE file.dir_id,
              checksum |-> file.checksum,
              last_indexed |-> file.last_indexed,
              status |-> file.status]
        ELSE files[q]]

\* removeFile whose WHERE clause matches no row.
removeFile_MatchesNoRow(path) == files

\* DELETE FROM files WHERE path = ?
removeFile(path) == [q \in DOMAIN files \ {path} |-> files[q]]

\* INSERT OR IGNORE INTO directories (path, added_at)
addDirectory(path) == directories \cup {path}

\* DELETE FROM directories WHERE id = ?  (a row is named by its path here: the
\* id of a row and its path determine each other)
deleteDirectory(id) == directories \ {id}

\* The id column of the row of a directory.
DirId(path) == IF path = "/d" THEN 1 ELSE IF path = "/d/" THEN 2 ELSE 3

\* The cascade taking a NULL dir_id for a reference to the deleted row.
onDeleteCascade_NullMatches(id) ==
    [q \in {r \in DOMAIN files : files[r].dir_id # id /\ files[r].dir_id # Null} |-> files[q]]

\* FOREIGN KEY(dir_id) REFERENCES directories(id) ON DELETE CASCADE: the rows
\* of files that reference the deleted directory go with it.
onDeleteCascade(id) ==
    [q \in {r \in DOMAIN files : files[r].dir_id # id} |-> files[q]]

\* watcherManager.startWatcher: nothing when the directory has a watcher.
startWatcher(dirPath) == IF dirPath \in watchers THEN watchers ELSE watchers \cup {dirPath}

\* startWatcher opening an FSWatcher on every call.
watch_OnEveryCall(dirPath) == [handles EXCEPT ![dirPath] = @ + 1]

\* chokidar.watch(dirPath, ...) in startWatcher: reached when the Map has no
\* entry for dirPath.
watch(dirPath) ==
    IF dirPath \in watchers THEN handles ELSE [handles EXCEPT ![dirPath] = @ + 1]

\* watcherManager.stopWatcher: the Map entry is deleted when there is one.
stopWatcher(dirPath) == IF dirPath \in watchers THEN watchers \ {dirPath} ELSE watchers

\* w.close() in stopWatcher: reached when the Map has an entry for dirPath.
close(dirPath) ==
    IF dirPath \in watchers THEN [handles EXCEPT ![dirPath] = @ - 1] ELSE handles

\* watcherManager.status(): the keys of the Map.
status == watchers

\* ------------------------------------------------------- issuing a request
\* A handler runs up to its await: the worker call is on the wire.  A route
\* runs once per request; the handler of a file event runs once in every
\* watcher that sees the path.
Call(ev, kind, p) ==
    LET n == IF ev = "api" THEN 1 ELSE Cardinality(Seeing(p))
        S == {s \in FreeSlots : Cardinality({x \in FreeSlots : x < s}) < n}
    IN /\ Cardinality(FreeSlots) >= n
       /\ ops' = [s \in Slots |->
                    IF s \in S
                    THEN [pc |-> "called", ev |-> ev, kind |-> kind, path |-> p,
                          checksum |-> Undefined]
                    ELSE ops[s]]

\* watcher.on('add'): worker.indexFile(path)
OnAdd(p) == Call("add", "index", p)

\* The 'change' handler calling worker.indexFile.
OnChange_CallsIndex(p) == Call("change", "index", p)

\* watcher.on('change'): worker.reindexFile(path)
OnChange(p) == Call("change", "reindex", p)

\* watcher.on('unlink'): worker.removeFile(path)
OnUnlink(p) == Call("unlink", "remove", p)

\* ---------------------------------------------------------- the filesystem
\* A file appears under the watched tree; a watcher that sees it emits 'add'.
FsCreate(p, d) ==
    /\ disk[p] = NoFile
    /\ disk' = [disk EXCEPT ![p] = d]
    /\ IF Watched(p) THEN OnAdd(p) ELSE UNCHANGED ops
    /\ UNCHANGED <<store, cache, files, directories, watchers, handles, setdir, now>>

\* The bytes of a file change; a watcher that sees it emits 'change'.
FsModify(p, d) ==
    /\ disk[p] # NoFile
    /\ d # disk[p]
    /\ disk' = [disk EXCEPT ![p] = d]
    /\ IF Watched(p) THEN OnChange(p) ELSE UNCHANGED ops
    /\ UNCHANGED <<store, cache, files, directories, watchers, handles, setdir, now>>

\* A file is deleted; a watcher that sees it emits 'unlink'.
FsDelete(p) ==
    /\ disk[p] # NoFile
    /\ disk' = [disk EXCEPT ![p] = NoFile]
    /\ IF Watched(p) THEN OnUnlink(p) ELSE UNCHANGED ops
    /\ UNCHANGED <<store, cache, files, directories, watchers, handles, setdir, now>>

\* ------------------------------------------------------------- API routes
\* router.post('/index-file'), up to await worker.indexFile(path)
PostIndexFile(p) ==
    /\ Call("api", "index", p)
    /\ UNCHANGED <<disk, store, cache, files, directories, watchers, handles, setdir, now>>

\* router.post('/reindex-file'), up to await worker.reindexFile(path)
PostReindexFile(p) ==
    /\ Call("api", "reindex", p)
    /\ UNCHANGED <<disk, store, cache, files, directories, watchers, handles, setdir, now>>

\* router.delete('/remove-file'), up to await worker.removeFile(path)
DeleteRemoveFile(p) ==
    /\ Call("api", "remove", p)
    /\ UNCHANGED <<disk, store, cache, files, directories, watchers, handles, setdir, now>>

\* --------------------------------------------------------------- the worker
\* The worker serves one request on a path at a time (per-path lock), so each
\* request is one step on the store.  fail: the vector store or the model is
\* not reachable (500); nothing is written.  A write that succeeds invalidates
\* the search cache.
NoEntry == [hit |-> FALSE, data |-> {}]

Respond(s, pc, checksum) == ops' = [ops EXCEPT ![s].pc = pc, ![s].checksum = checksum]

\* index_file(path): 400 when the path is missing or not absolute, 404 when
\* the file is gone, skipped when the extension is
\* not supported, else the points of the path become those of its bytes.
WorkerIndexFile(s, fail) ==
    /\ ops[s].pc = "called"
    /\ ops[s].kind = "index"
    /\ LET p == ops[s].path IN
       IF fail \/ ~WellFormed(p) \/ disk[p] = NoFile
       THEN Respond(s, "err", Undefined) /\ UNCHANGED <<store, cache>>
       ELSE IF ~Supported(p)
       THEN Respond(s, "ok", Undefined) /\ UNCHANGED <<store, cache>>
       ELSE /\ store' = (store \ PointsOfFile(p)) \cup PointsFor(p, disk[p])
            /\ cache' = NoEntry
            /\ Respond(s, "ok", disk[p])
    /\ UNCHANGED <<disk, files, directories, watchers, handles, setdir, now>>

\* reindex_file(path): delete_by_file, then index_file.
WorkerReindexFile(s, fail) ==
    /\ ops[s].pc = "called"
    /\ ops[s].kind = "reindex"
    /\ LET p == ops[s].path IN
       IF fail \/ ~WellFormed(p) \/ disk[p] = NoFile
       THEN Respond(s, "err", Undefined) /\ UNCHANGED <<store, cache>>
       ELSE IF ~Supported(p)
       THEN Respond(s, "ok", Undefined) /\ UNCHANGED <<store, cache>>
       ELSE /\ store' = (store \ PointsOfFile(p)) \cup PointsFor(p, disk[p])
            /\ cache' = NoEntry
            /\ Respond(s, "ok", disk[p])
    /\ UNCHANGED <<disk, files, directories, watchers, handles, setdir, now>>

\* remove_file(path): 400 when the path is missing or not absolute, else
\* delete_by_file.
WorkerRemoveFile(s, fail) ==
    /\ ops[s].pc = "called"
    /\ ops[s].kind = "remove"
    /\ IF fail \/ ~WellFormed(ops[s].path)
       THEN Respond(s, "err", Undefined) /\ UNCHANGED <<store, cache>>
       ELSE /\ store' = store \ PointsOfFile(ops[s].path)
            /\ cache' = NoEntry
            /\ Respond(s, "ok", Undefined)
    /\ UNCHANGED <<disk, files, directories, watchers, handles, setdir, now>>

\* index_directory(root): every supported file under root is indexed.
WorkerIndexDirectory(d, fail) ==
    /\ setdir[d] = "called"
    /\ IF fail
       THEN setdir' = [setdir EXCEPT ![d] = "err"] /\ UNCHANGED <<store, cache>>
       ELSE /\ setdir' = [setdir EXCEPT ![d] = "ok"]
            /\ cache' = NoEntry
            /\ LET found == {p \in Paths : Under(p, d) /\ Supported(p) /\ disk[p] # NoFile}
               IN store' = {pt \in store : pt.file_path \notin found}
                           \cup UNION {PointsFor(p, disk[p]) : p \in found}
    /\ UNCHANGED <<disk, files, directories, watchers, handles, ops, now>>

\* ------------------------------------------- the handlers after their await
\* What a file route answers with: res.json(...) when the call resolved,
\* res.status(500) from the catch block when it was rejected.
ResStatus(s) == IF ops[s].pc = "ok" THEN 200 ELSE 500

\* The index handlers recording a rejected call as a row of status failed.
AfterIndexFile_MarksFailed(s) ==
    /\ ops[s].kind = "index"
    /\ ops[s].pc \in {"ok", "err"}
    /\ files' = IF ops[s].pc = "ok"
                THEN upsertFile([path |-> ops[s].path, dir_id |-> Null,
                                 checksum |-> OrNull(ops[s].checksum),
                                 last_indexed |-> now, status |-> "indexed"])
                ELSE upsertFile([path |-> ops[s].path, dir_id |-> Null,
                                 checksum |-> Null,
                                 last_indexed |-> now, status |-> "failed"])
    /\ ops' = [ops EXCEPT ![s] = Free]
    /\ UNCHANGED <<disk, store, cache, directories, watchers, handles, setdir, now>>

\* index handlers (watcher 'add' and POST /index-file): the row is written when
\* the call resolved; a rejected call is logged (watcher) or answered 500.
AfterIndexFile(s) ==
    /\ ops[s].kind = "index"
    /\ ops[s].pc \in {"ok", "err"}
    /\ files' = IF ops[s].pc = "ok"
                THEN upsertFile([path |-> ops[s].path, dir_id |-> Null,
                                 checksum |-> OrNull(ops[s].checksum),
                                 last_indexed |-> now, status |-> "indexed"])
                ELSE files
    /\ ops' = [ops EXCEPT ![s] = Free]
    /\ UNCHANGED <<disk, store, cache, directories, watchers, handles, setdir, now>>

\* reindex handlers (watcher 'change' and POST /reindex-file).
AfterReindexFile(s) ==
    /\ ops[s].kind = "reindex"
    /\ ops[s].pc \in {"ok", "err"}
    /\ files' = IF ops[s].pc = "ok"
                THEN upsertFile([path |-> ops[s].path, dir_id |-> Null,
                                 checksum |-> OrNull(ops[s].checksum),
                                 last_indexed |-> now, status |-> "indexed"])
                ELSE files
    /\ ops' = [ops EXCEPT ![s] = Free]
    /\ UNCHANGED <<disk, store, cache, directories, watchers, handles, setdir, now>>

\* remove handlers (watcher 'unlink' and DELETE /remove-file).
AfterRemoveFile(s) ==
    /\ ops[s].kind = "remove"
    /\ ops[s].pc \in {"ok", "err"}
    /\ files' = IF ops[s].pc = "ok" THEN removeFile(ops[s].path) ELSE files
    /\ ops' = [ops EXCEPT ![s] = Free]
    /\ UNCHANGED <<disk, store, cache, directories, watchers, handles, setdir, now>>

\* ---------------------------------------------------------- set-directory
\* router.post('/set-directory'): a path that is missing or is no directory on
\* disk is answered 400 and nothing else happens; else the registration is
\* stored, then the initial index is awaited.
SetDirectory(d) ==
    /\ d \in DirForms
    /\ setdir[d] = "idle"
    /\ directories' = addDirectory(d)
    /\ setdir' = [setdir EXCEPT ![d] = "called"]
    /\ UNCHANGED <<disk, store, cache, files, watchers, handles, ops, now>>

\* What set-directory answers with once the initial index has ended:
\* res.json({ok: true, ...}) or res.status(500) from the catch block.
SetDirectoryStatus(d) == IF setdir[d] = "ok" THEN 200 ELSE 500

\* set-directory starting the watcher whatever the initial index answered.
AfterIndexDirectory_StartsAlways(d) ==
    /\ setdir[d] \in {"ok", "err"}
    /\ watchers' = startWatcher(d)
    /\ handles' = watch(d)
    /\ setdir' = [setdir EXCEPT ![d] = "idle"]
    /\ UNCHANGED <<disk, store, cache, files, directories, ops, now>>

\* After await worker.indexDirectory(path): the watcher is started, or the
\* failure is answered 500.
AfterIndexDirectory(d) ==
    /\ setdir[d] \in {"ok", "err"}
    /\ watchers' = IF setdir[d] = "ok" THEN startWatcher(d) ELSE watchers
    /\ handles' = IF setdir[d] = "ok" THEN watch(d) ELSE handles
    /\ setdir' = [setdir EXCEPT ![d] = "idle"]
    /\ UNCHANGED <<disk, store, cache, files, directories, ops, now>>

\* router.delete('/directory/:id'): the row is deleted, then it is looked up
\* among the rows that db.getDirectories() still returns, and the watcher of
\* its path is stopped when the lookup finds it.
DeleteDirectory(d) ==
    /\ d \in directories
    /\ directories' = deleteDirectory(d)
    /\ files' = onDeleteCascade(DirId(d))
    /\ LET deletedDir == {x \in directories' : x = d}
       IN /\ watchers' = IF deletedDir # {} THEN stopWatcher(d) ELSE watchers
          /\ handles' = IF deletedDir # {} THEN close(d) ELSE handles
    /\ UNCHANGED <<disk, store, cache, ops, setdir, now>>

\* ---------------------------------------------------------------- startup
\* initializeWatchers starting the watcher of one stored directory only.
initializeWatchers_FirstOnly ==
    IF directories = {} THEN watchers
    ELSE watchers \cup {CHOOSE d \in directories : TRUE}

\* initializeWatchers: db.listDirectories().forEach(dir => startWatcher(dir.path)),
\* the Map afterwards: every stored path that had no watcher has got one.
initializeWatchers == watchers \cup directories

\* The callback of app.listen: the server listens, initializeWatchers runs.
Listen ==
    /\ proc = "starting"
    /\ watchers' = initializeWatchers
    /\ handles' = [f \in DirForms |->
                     IF f \in watchers' \ watchers THEN handles[f] + 1 ELSE handles[f]]
    /\ proc' = "up"
    /\ UNCHANGED <<disk, store, cache, files, directories, ops, setdir, now,
                   burst, hist, search, ui>>

\* --------------------------------------------------------------- shutdown
\* process.on('SIGINT'): every watcher that status() lists is stopped, then
\* server.close() stops listening.
Sigint ==
    /\ proc = "up"
    /\ watchers' = {}
    /\ handles' = [f \in DirForms |-> IF f \in status THEN handles[f] - 1 ELSE handles[f]]
    /\ proc' = "closing"
    /\ UNCHANGED <<disk, store, cache, files, directories, ops, setdir, now,
                   burst, hist, search, ui>>

\* The callback of server.close(): the connections of the API requests have
\* ended, process.exit(0).  The handlers of watcher events are no connection
\* of the server; those that wait for the worker end with the process.
Exit ==
    /\ proc = "closing"
    /\ \A s \in Slots : ops[s].pc # "free" => ops[s].ev # "api"
    /\ \A f \in DirForms : setdir[f] = "idle"
    /\ proc' = "exited"
    /\ UNCHANGED <<core, burst, hist, search, ui>>

\* ------------------------------------------------------ the watch manager
\* A caller of the module (set-directory, initializeWatchers) starts a watcher.
StartWatcher(d) ==
    /\ watchers' = startWatcher(d)
    /\ handles' = watch(d)
    /\ UNCHANGED <<disk, store, cache, files, directories, ops, setdir, now>>

\* A caller of the module (the SIGINT handler) stops a watcher.
StopWatcher(d) ==
    /\ watchers' = stopWatcher(d)
    /\ handles' = close(d)
    /\ UNCHANGED <<disk, store, cache, files, directories, ops, setdir, now>>

\* ----------------------------------------------------------------- search
\* useSearch.search -> apiService.search.semantic -> router.post('/search'),
\* up to await worker.search(query, top_k).  One search at a time.
PostSearch ==
    /\ search.pc = "idle"
    /\ search' = [search EXCEPT !.pc = "called"]
    /\ UNCHANGED <<core, burst, hist, proc, ui>>

\* search(query, top_k): the entry of the search cache on a hit; else the
\* points nearest to the query, read from the store when the request is
\* served (top_k covers the store) and written to the cache.
WorkerSearch(fail) ==
    /\ search.pc = "called"
    /\ IF cache.hit
       THEN search' = [search EXCEPT !.pc = "ok", !.data = cache.data] /\ UNCHANGED cache
       ELSE IF fail
       THEN search' = [search EXCEPT !.pc = "err"] /\ UNCHANGED cache
       ELSE /\ search' = [search EXCEPT !.pc = "ok", !.data = store]
            /\ cache' = [hit |-> TRUE, data |-> store]
    /\ UNCHANGED <<disk, store, files, directories, watchers, handles, ops, setdir, now,
                   burst, hist, proc, ui>>

\* The entry of the search cache expires (TTL) or is evicted (LRU).
CacheExpire ==
    /\ cache.hit
    /\ cache' = NoEntry
    /\ UNCHANGED <<disk, store, files, directories, watchers, handles, ops, setdir, now,
                   burst, hist, search, proc, ui>>

\* The search route and the hook keeping the results they answered before.
AfterSearch_KeepsOld ==
    /\ search.pc \in {"ok", "err"}
    /\ search' = [pc |-> "idle", data |-> {}, results |-> search.results]
    /\ UNCHANGED <<core, burst, hist, proc, ui>>

\* After await worker.search: res.json({ok: true, results: data}) and the hook's
\* setResults of them, or the 500 and the hook's setResults([]).
AfterSearch ==
    /\ search.pc \in {"ok", "err"}
    /\ search' = [pc |-> "idle", data |-> {},
                  results |-> IF search.pc = "ok" THEN search.data ELSE {}]
    /\ UNCHANGED <<core, burst, hist, proc, ui>>

\* ----------------------------------------------------------- the front end
\* The front end after mount: the query is empty, nothing is displayed,
\* nothing is pending.
NoQuery == ""

NoUi ==
    [query |-> NoQuery, timer |-> NoQuery, reqs |-> [s \in Slots |-> NoQuery],
     isSearching |-> FALSE, lastQuery |-> NoQuery, results |-> NoQuery,
     scores |-> << >>, matches |-> << >>, listed |-> {},
     remove |-> [pc |-> "none", path |-> ""]]

\* What the user can have in the search box besides nothing (trimmed).
Queries == {"a", "ab", "cd"}

\* searchQuery.trim().length < 2
Short(q) == q = "a"

\* The fetch slots of the front end that carry no request.
FreeReqs == {s \in Slots : ui.reqs[s] = NoQuery}

\* The effect of App without its cleanup: a timer that is pending stays.
Type_KeepsTimer(q) ==
    /\ q # ui.query
    /\ ui' = IF q = NoQuery
             THEN [ui EXCEPT !.query = q, !.results = NoQuery, !.lastQuery = NoQuery]
             ELSE IF Short(q)
             THEN [ui EXCEPT !.query = q]
             ELSE [ui EXCEPT !.query = q, !.timer = q]
    /\ UNCHANGED <<core, burst, hist, search, proc>>

\* The user changes the search box: setSearchQuery, then the effect of App on
\* searchQuery.  Its cleanup clears the timer of the query before; an empty
\* query calls clearResults, a query of one character does nothing, any other
\* query starts the timer of 300 ms.
Type(q) ==
    /\ q # ui.query
    /\ ui' = IF q = NoQuery
             THEN [ui EXCEPT !.query = q, !.timer = NoQuery,
                             !.results = NoQuery, !.lastQuery = NoQuery]
             ELSE IF Short(q)
             THEN [ui EXCEPT !.query = q, !.timer = NoQuery]
             ELSE [ui EXCEPT !.query = q, !.timer = q]
    /\ UNCHANGED <<core, burst, hist, search, proc>>

\* The timer fires: useSearch.search(query) up to await
\* apiService.search.semantic.  abortControllerRef.current.abort() reaches no
\* request: the signal of the controller is passed to no fetch.
TimerFires ==
    /\ ui.timer # NoQuery
    /\ FreeReqs # {}
    /\ LET s == CHOOSE x \in FreeReqs : \A y \in FreeReqs : x <= y
       IN ui' = [ui EXCEPT !.timer = NoQuery, !.reqs[s] = ui.timer,
                           !.isSearching = TRUE, !.lastQuery = ui.timer]
    /\ UNCHANGED <<core, burst, hist, search, proc>>

\* The response of a search request arrives (the backend is healthy):
\* setResults(formattedResults), finally setIsSearching(false).
SearchSettles(s) ==
    /\ ui.reqs[s] # NoQuery
    /\ ui' = [ui EXCEPT !.reqs[s] = NoQuery, !.results = ui.reqs[s],
                        !.isSearching = FALSE]
    /\ UNCHANGED <<core, burst, hist, search, proc>>

\* ------------------------------------------------- the directory list
\* The routes that the routers mounted under /api define, as method and path.
Routes ==
    {<<"POST", "/set-directory">>, <<"GET", "/directories">>,
     <<"DELETE", "/directory/:id">>, <<"POST", "/index-file">>,
     <<"POST", "/reindex-file">>, <<"DELETE", "/remove-file">>,
     <<"POST", "/search">>, <<"POST", "/ask">>}

\* Express matches the path of a request against the path of a route: equal, or
\* the route ends in a parameter and the request has a segment in its place.
Matches(route, url) == route = url \/ (route = "/directory/:id" /\ url = "/directory/1")

\* Some route takes the request; else Express answers 404.
Handled(method, url) == \E r \in Routes : r[1] = method /\ Matches(r[2], url)

\* useDirectories.loadDirectories: GET /directories, setDirectories(list).
LoadDirectories ==
    /\ ui' = [ui EXCEPT !.listed = directories]
    /\ UNCHANGED <<core, burst, hist, search, proc>>

\* useDirectories.removeDirectory(path) for a directory of the list, up to
\* await apiService.directories.remove(path): DELETE /remove-directory {path}.
RemoveDirectory(d) ==
    /\ d \in ui.listed
    /\ ui.remove.pc \in {"none", "success", "failure"}
    /\ ui' = [ui EXCEPT !.remove = [pc |-> "called", path |-> d]]
    /\ UNCHANGED <<core, burst, hist, search, proc>>

\* The backend takes DELETE /remove-directory: no route matches, Express
\* answers 404 and no handler runs.
ExpressRemoveDirectory ==
    /\ ui.remove.pc = "called"
    /\ ui' = [ui EXCEPT !.remove.pc =
                 IF Handled("DELETE", "/remove-directory") THEN "ok" ELSE "notfound"]
    /\ UNCHANGED <<core, burst, hist, search, proc>>

\* removeDirectory after the await: apiRequest throws APIError when the
\* response is not ok, and the catch block returns {success: false}; else the
\* list is loaded again and {success: true} is returned.
AfterRemoveDirectory ==
    /\ ui.remove.pc \in {"ok", "notfound"}
    /\ ui' = IF ui.remove.pc = "ok"
             THEN [ui EXCEPT !.remove.pc = "success", !.listed = directories]
             ELSE [ui EXCEPT !.remove.pc = "failure"]
    /\ UNCHANGED <<core, burst, hist, search, proc>>

\* ------------------------------------------------ the display of the scores
\* A result of the response: with a score, or with the field missing.
Scored(v) == [file_name |-> "f", score |-> v]
Unscored == [file_name |-> "f"]
RawResults == {Scored(v) : v \in -MaxScore .. MaxScore} \cup {Unscored}
\* response.results.results, when it is not empty
Responses == UNION {[1 .. n -> RawResults] : n \in 1 .. MaxResults}

\* result.score || 0
ScoreOrZero(result) ==
    IF "score" \in DOMAIN result /\ result.score # 0 THEN result.score ELSE 0

\* Math.round(100 * a / b) for b > 0: the nearest integer, halves upwards.
RoundPercent(a, b) == (200 * a + b) \div (2 * b)

\* Math.max(...scores), Math.min(...scores)
MaxOf(scores) == CHOOSE x \in scores : \A y \in scores : y <= x
MinOf(scores) == CHOOSE x \in scores : \A y \in scores : x <= y

\* normalizedMatch without the floor of 1.
normalizedMatch_Unclamped(score, maxScore, minScore) ==
    IF maxScore = minScore THEN 100
    ELSE IF maxScore > 0 THEN RoundPercent(score, maxScore)
    ELSE RoundPercent(score - minScore, maxScore - minScore)

\* normalizedMatch: 100 when all scores are equal; relative to the highest
\* score when that is positive; else min-max scaled; never below 1.
normalizedMatch(score, maxScore, minScore) ==
    LET m == IF maxScore = minScore THEN 100
             ELSE IF maxScore > 0 THEN RoundPercent(score, maxScore)
             ELSE RoundPercent(score - minScore, maxScore - minScore)
    IN IF m < 1 THEN 1 ELSE m

\* transformedResults.map(...): the match value of every result.
formattedResults(transformedResults) ==
    LET scores == {ScoreOrZero(transformedResults[i]) : i \in DOMAIN transformedResults}
    IN [i \in DOMAIN transformedResults |->
           normalizedMatch(ScoreOrZero(transformedResults[i]), MaxOf(scores), MinOf(scores))]

\* The response at hand is formatted and displayed.
FormatResults ==
    /\ ui.scores # << >>
    /\ ui.matches = << >>
    /\ ui' = [ui EXCEPT !.matches = formattedResults(ui.scores)]
    /\ UNCHANGED <<core, burst, hist, search, proc>>

\* ------------------------------------------------------------------- time
\* The wall clock moves on.
Tick ==
    /\ now < MaxClock
    /\ now' = now + 1
    /\ UNCHANGED <<disk, store, cache, files, directories, watchers, handles, ops, setdir>>

\* ---------------------------------------------------------------- history
\* The worker calls that watcher events issue in this step, per path, added to
\* those of the current coalescing window.
BurstAfter ==
    [p \in Paths |->
        burst[p] + Cardinality({s \in Slots : /\ ops[s].pc = "free"
                                              /\ ops'[s].pc = "called"
                                              /\ ops'[s].path = p
                                              /\ ops'[s].ev # "api"})]

\* The coalescing window (debounce_ms) passes without an event.
WindowElapse ==
    /\ \E p \in Paths : burst[p] > 0
    /\ burst' = [p \in Paths |-> 0]
    /\ UNCHANGED <<core, hist, rest>>

\* The request of slot s ends in this step: hist keeps the last two requests,
\* each with its path, its outcome and the bytes of the file when it ended.
HistAfter(s) ==
    LET e == [kind |-> ops[s].kind, ok |-> ops[s].pc = "ok", path |-> ops[s].path,
              bytes |-> disk[ops[s].path]]
        h == Append(hist, e)
    IN IF Len(h) > 2 THEN Tail(h) ELSE h

\* ------------------------------------------------------------------ start
\* The backend has started on an empty registry, nothing is on disk.
InitCore ==
    /\ disk = [p \in Paths |-> NoFile]
    /\ store = {}
    /\ cache = NoEntry
    /\ files = << >>
    /\ directories = {}
    /\ watchers = {}
    /\ handles = [f \in DirForms |-> 0]
    /\ ops = [s \in Slots |-> Free]
    /\ setdir = [f \in DirForms |-> "idle"]
    /\ now = 0

InitHistory ==
    /\ burst = [p \in Paths |-> 0]
    /\ hist = << >>

\* No search has been sent, the process runs.
NoSearch == [pc |-> "idle", data |-> {}, results |-> {}]

InitRest ==
    /\ search = NoSearch
    /\ proc = "up"
    /\ ui = NoUi

Init == InitCore /\ InitHistory /\ InitRest

\* The whole backend: filesystem, API routes, set-directory, worker.  The
\* clock stands still here: last_indexed is the one thing that reads it.
Next ==
    \/ \E p \in Paths, d \in Digests : FsCreate(p, d) /\ UNCHANGED <<burst, hist, rest>>
    \/ \E p \in Paths, d \in Digests : FsModify(p, d) /\ UNCHANGED <<burst, hist, rest>>
    \/ \E p \in Paths : FsDelete(p) /\ UNCHANGED <<burst, hist, rest>>
    \/ \E p \in Paths : PostIndexFile(p) /\ UNCHANGED <<burst, hist, rest>>
    \/ \E p \in Paths : PostReindexFile(p) /\ UNCHANGED <<burst, hist, rest>>
    \/ \E p \in Paths : DeleteRemoveFile(p) /\ UNCHANGED <<burst, hist, rest>>
    \/ \E s \in Slots, fail \in BOOLEAN : WorkerIndexFile(s, fail) /\ UNCHANGED <<burst, hist, rest>>
    \/ \E s \in Slots, fail \in BOOLEAN : WorkerReindexFile(s, fail) /\ UNCHANGED <<burst, hist, rest>>
    \/ \E s \in Slots, fail \in BOOLEAN : WorkerRemoveFile(s, fail) /\ UNCHANGED <<burst, hist, rest>>
    \/ \E d \in Dirs, fail \in BOOLEAN : WorkerIndexDirectory(d, fail) /\ UNCHANGED <<burst, hist, rest>>
    \/ \E s \in Slots : AfterIndexFile(s) /\ UNCHANGED <<burst, hist, rest>>
    \/ \E s \in Slots : AfterReindexFile(s) /\ UNCHANGED <<burst, hist, rest>>
    \/ \E s \in Slots : AfterRemoveFile(s) /\ UNCHANGED <<burst, hist, rest>>
    \/ \E d \in Dirs : SetDirectory(d) /\ UNCHANGED <<burst, hist, rest>>
    \/ \E d \in Dirs : AfterIndexDirectory(d) /\ UNCHANGED <<burst, hist, rest>>

Spec == Init /\ [][Next]_vars

\* ------------------------------------------------------------------------
\* The watch loop alone: the directory was registered while empty and its
\* watcher is attached; files come and go, the worker is reachable.
InitWatch ==
    /\ disk = [p \in Paths |-> NoFile]
    /\ store = {}
    /\ cache = NoEntry
    /\ files = << >>
    /\ directories = Dirs
    /\ watchers = Dirs
    /\ handles = [f \in DirForms |-> IF f \in Dirs THEN 1 ELSE 0]
    /\ ops = [s \in Slots |-> Free]
    /\ setdir = [f \in DirForms |-> "idle"]
    /\ now = 0
    /\ InitHistory
    /\ InitRest

NextWatch ==
    \/ \E p \in Paths, d \in Digests : FsCreate(p, d) /\ UNCHANGED <<burst, hist, rest>>
    \/ \E p \in Paths, d \in Digests : FsModify(p, d) /\ UNCHANGED <<burst, hist, rest>>
    \/ \E p \in Paths : FsDelete(p) /\ UNCHANGED <<burst, hist, rest>>
    \/ \E s \in Slots : WorkerIndexFile(s, FALSE) /\ UNCHANGED <<burst, hist, rest>>
    \/ \E s \in Slots : WorkerReindexFile(s, FALSE) /\ UNCHANGED <<burst, hist, rest>>
    \/ \E s \in Slots : WorkerRemoveFile(s, FALSE) /\ UNCHANGED <<burst, hist, rest>>
    \/ \E s \in Slots : AfterIndexFile(s) /\ UNCHANGED <<burst, hist, rest>>
    \/ \E s \in Slots : AfterReindexFile(s) /\ UNCHANGED <<burst, hist, rest>>
    \/ \E s \in Slots : AfterRemoveFile(s) /\ UNCHANGED <<burst, hist, rest>>

SpecWatch == InitWatch /\ [][NextWatch]_vars

\* ------------------------------------------------------------------------
\* The watch loop with the coalescing window of the events observed in burst.
NextDebounce ==
    \/ \E p \in Paths, d \in Digests :
          FsCreate(p, d) /\ burst[p] < MaxBurst /\ burst' = BurstAfter /\ UNCHANGED <<hist, rest>>
    \/ \E p \in Paths, d \in Digests :
          FsModify(p, d) /\ burst[p] < MaxBurst /\ burst' = BurstAfter /\ UNCHANGED <<hist, rest>>
    \/ \E p \in Paths :
          FsDelete(p) /\ burst[p] < MaxBurst /\ burst' = BurstAfter /\ UNCHANGED <<hist, rest>>
    \/ \E s \in Slots : WorkerIndexFile(s, FALSE) /\ UNCHANGED <<burst, hist, rest>>
    \/ \E s \in Slots : WorkerReindexFile(s, FALSE) /\ UNCHANGED <<burst, hist, rest>>
    \/ \E s \in Slots : WorkerRemoveFile(s, FALSE) /\ UNCHANGED <<burst, hist, rest>>
    \/ \E s \in Slots : AfterIndexFile(s) /\ UNCHANGED <<burst, hist, rest>>
    \/ \E s \in Slots : AfterReindexFile(s) /\ UNCHANGED <<burst, hist, rest>>
    \/ \E s \in Slots : AfterRemoveFile(s) /\ UNCHANGED <<burst, hist, rest>>
    \/ WindowElapse

SpecDebounce == InitWatch /\ [][NextDebounce]_vars

\* ------------------------------------------------------------------------
\* Registration and the watch loop, no API file request, the worker reachable.
NextRegister ==
    \/ \E p \in Paths, d \in Digests : FsCreate(p, d) /\ UNCHANGED <<burst, hist, rest>>
    \/ \E p \in Paths, d \in Digests : FsModify(p, d) /\ UNCHANGED <<burst, hist, rest>>
    \/ \E p \in Paths : FsDelete(p) /\ UNCHANGED <<burst, hist, rest>>
    \/ \E d \in Dirs : SetDirectory(d) /\ UNCHANGED <<burst, hist, rest>>
    \/ \E d \in Dirs : WorkerIndexDirectory(d, FALSE) /\ UNCHANGED <<burst, hist, rest>>
    \/ \E d \in Dirs : AfterIndexDirectory(d) /\ UNCHANGED <<burst, hist, rest>>
    \/ \E s \in Slots : WorkerIndexFile(s, FALSE) /\ UNCHANGED <<burst, hist, rest>>
    \/ \E s \in Slots : WorkerReindexFile(s, FALSE) /\ UNCHANGED <<burst, hist, rest>>
    \/ \E s \in Slots : WorkerRemoveFile(s, FALSE) /\ UNCHANGED <<burst, hist, rest>>
    \/ \E s \in Slots : AfterIndexFile(s) /\ UNCHANGED <<burst, hist, rest>>
    \/ \E s \in Slots : AfterReindexFile(s) /\ UNCHANGED <<burst, hist, rest>>
    \/ \E s \in Slots : AfterRemoveFile(s) /\ UNCHANGED <<burst, hist, rest>>

SpecRegister == Init /\ [][NextRegister]_vars

\* ------------------------------------------------------------------------
\* Reindex alone: the files on disk were indexed by their 'add' events under
\* the attached watcher; from here only reindex requests run, from 'change'
\* events and from POST /reindex-file, the worker reachable.
InitReindex ==
    /\ disk \in [Paths -> Digests]
    /\ store = UNION {PointsFor(p, disk[p]) : p \in {q \in Paths : Supported(q)}}
    /\ cache = NoEntry
    /\ files = [p \in Paths |->
                  [dir_id |-> Null,
                   checksum |-> IF Supported(p) THEN disk[p] ELSE Null,
                   last_indexed |-> 0, status |-> "indexed"]]
    /\ directories = Dirs
    /\ watchers = Dirs
    /\ handles = [f \in DirForms |-> IF f \in Dirs THEN 1 ELSE 0]
    /\ ops = [s \in Slots |-> Free]
    /\ setdir = [f \in DirForms |-> "idle"]
    /\ now = 0
    /\ InitHistory
    /\ InitRest

NextReindex ==
    \/ \E p \in Paths, d \in Digests : FsModify(p, d) /\ UNCHANGED <<burst, hist, rest>>
    \/ \E p \in Paths : PostReindexFile(p) /\ UNCHANGED <<burst, hist, rest>>
    \/ \E s \in Slots : WorkerReindexFile(s, FALSE) /\ UNCHANGED <<burst, hist, rest>>
    \/ \E s \in Slots : AfterReindexFile(s) /\ UNCHANGED <<burst, hist, rest>>

SpecReindex == InitReindex /\ [][NextReindex]_vars

\* ------------------------------------------------------------------------
\* One client that sends a file request when the one before has been answered;
\* no directory is watched, the files change between requests, the worker
\* may fail.  hist keeps the last two requests.
Idle == FreeSlots = Slots

NextSeq ==
    \/ \E p \in Paths, d \in Digests : Idle /\ FsCreate(p, d) /\ UNCHANGED <<burst, hist, rest>>
    \/ \E p \in Paths, d \in Digests : Idle /\ FsModify(p, d) /\ UNCHANGED <<burst, hist, rest>>
    \/ \E p \in Paths : Idle /\ FsDelete(p) /\ UNCHANGED <<burst, hist, rest>>
    \/ \E p \in Paths : Idle /\ PostIndexFile(p) /\ UNCHANGED <<burst, hist, rest>>
    \/ \E p \in Paths : Idle /\ PostReindexFile(p) /\ UNCHANGED <<burst, hist, rest>>
    \/ \E p \in Paths : Idle /\ DeleteRemoveFile(p) /\ UNCHANGED <<burst, hist, rest>>
    \/ \E s \in Slots, fail \in BOOLEAN : WorkerIndexFile(s, fail) /\ UNCHANGED <<burst, hist, rest>>
    \/ \E s \in Slots, fail \in BOOLEAN : WorkerReindexFile(s, fail) /\ UNCHANGED <<burst, hist, rest>>
    \/ \E s \in Slots, fail \in BOOLEAN : WorkerRemoveFile(s, fail) /\ UNCHANGED <<burst, hist, rest>>
    \/ \E s \in Slots : AfterIndexFile(s) /\ hist' = HistAfter(s) /\ UNCHANGED <<burst, rest>>
    \/ \E s \in Slots : AfterReindexFile(s) /\ hist' = HistAfter(s) /\ UNCHANGED <<burst, rest>>
    \/ \E s \in Slots : AfterRemoveFile(s) /\ hist' = HistAfter(s) /\ UNCHANGED <<burst, rest>>

SpecSeq == Init /\ [][NextSeq]_vars

\* ------------------------------------------------------------------------
\* The same client sending index requests only, while the clock moves.
NextTwice ==
    \/ \E p \in Paths, d \in Digests : Idle /\ FsCreate(p, d) /\ UNCHANGED <<burst, hist, rest>>
    \/ \E p \in Paths, d \in Digests : Idle /\ FsModify(p, d) /\ UNCHANGED <<burst, hist, rest>>
    \/ \E p \in Paths : Idle /\ FsDelete(p) /\ UNCHANGED <<burst, hist, rest>>
    \/ \E p \in Paths : Idle /\ PostIndexFile(p) /\ UNCHANGED <<burst, hist, rest>>
    \/ \E s \in Slots, fail \in BOOLEAN : WorkerIndexFile(s, fail) /\ UNCHANGED <<burst, hist, rest>>
    \/ \E s \in Slots : AfterIndexFile(s) /\ hist' = HistAfter(s) /\ UNCHANGED <<burst, rest>>
    \/ Tick /\ UNCHANGED <<burst, hist, rest>>

SpecTwice == Init /\ [][NextTwice]_vars

\* ------------------------------------------------------------------------
\* The UI as the one client: it writes (index, reindex) and searches, one
\* request at a time; the files change between requests, the worker may fail.
NextSearch ==
    \/ \E p \in Paths, d \in Digests : Idle /\ FsCreate(p, d) /\ UNCHANGED <<burst, hist, rest>>
    \/ \E p \in Paths, d \in Digests : Idle /\ FsModify(p, d) /\ UNCHANGED <<burst, hist, rest>>
    \/ \E p \in Paths :
          Idle /\ search.pc = "idle" /\ PostIndexFile(p) /\ UNCHANGED <<burst, hist, rest>>
    \/ \E p \in Paths :
          Idle /\ search.pc = "idle" /\ PostReindexFile(p) /\ UNCHANGED <<burst, hist, rest>>
    \/ \E s \in Slots, fail \in BOOLEAN : WorkerIndexFile(s, fail) /\ UNCHANGED <<burst, hist, rest>>
    \/ \E s \in Slots, fail \in BOOLEAN : WorkerReindexFile(s, fail) /\ UNCHANGED <<burst, hist, rest>>
    \/ \E s \in Slots : AfterIndexFile(s) /\ hist' = HistAfter(s) /\ UNCHANGED <<burst, rest>>
    \/ \E s \in Slots : AfterReindexFile(s) /\ hist' = HistAfter(s) /\ UNCHANGED <<burst, rest>>
    \/ Idle /\ PostSearch
    \/ \E fail \in BOOLEAN : WorkerSearch(fail)
    \/ CacheExpire
    \/ AfterSearch

SpecSearch == Init /\ [][NextSearch]_vars

\* ------------------------------------------------------------------------
\* The watch manager under any sequence of start and stop calls, while files
\* come and go and the handlers of the events run; the worker is reachable.
NextManager ==
    \/ \E d \in Dirs : StartWatcher(d) /\ UNCHANGED <<burst, hist, rest>>
    \/ \E d \in Dirs : StopWatcher(d) /\ UNCHANGED <<burst, hist, rest>>
    \/ \E p \in Paths, d \in Digests : FsCreate(p, d) /\ UNCHANGED <<burst, hist, rest>>
    \/ \E p \in Paths : FsDelete(p) /\ UNCHANGED <<burst, hist, rest>>
    \/ \E s \in Slots : WorkerIndexFile(s, FALSE) /\ UNCHANGED <<burst, hist, rest>>
    \/ \E s \in Slots : WorkerRemoveFile(s, FALSE) /\ UNCHANGED <<burst, hist, rest>>
    \/ \E s \in Slots : AfterIndexFile(s) /\ UNCHANGED <<burst, hist, rest>>
    \/ \E s \in Slots : AfterRemoveFile(s) /\ UNCHANGED <<burst, hist, rest>>

SpecManager == Init /\ [][NextManager]_vars

\* ------------------------------------------------------------------------
\* Registration alone: the backend starts on an empty registry next to files
\* that are on disk already; clients submit the directory under any of its
\* forms, the worker may fail.
InitRegistry ==
    /\ disk \in [Paths -> Digests \cup {NoFile}]
    /\ store = {}
    /\ cache = NoEntry
    /\ files = << >>
    /\ directories = {}
    /\ watchers = {}
    /\ handles = [f \in DirForms |-> 0]
    /\ ops = [s \in Slots |-> Free]
    /\ setdir = [f \in DirForms |-> "idle"]
    /\ now = 0
    /\ InitHistory
    /\ InitRest

NextRegistry ==
    \/ \E f \in DirForms : SetDirectory(f) /\ UNCHANGED <<burst, hist, rest>>
    \/ \E f \in DirForms, fail \in BOOLEAN :
          WorkerIndexDirectory(f, fail) /\ UNCHANGED <<burst, hist, rest>>
    \/ \E f \in DirForms : AfterIndexDirectory(f) /\ UNCHANGED <<burst, hist, rest>>

SpecRegistry == InitRegistry /\ [][NextRegistry]_vars

\* ------------------------------------------------------------------------
\* The life of the backend process: directories are registered and removed,
\* files come and go, a client indexes files, and SIGINT arrives.  Requests
\* are taken while the server listens, handlers run until the process has
\* exited, the worker (another process) is reachable and serves what it
\* received.
NextLifecycle ==
    \/ \E p \in Paths, d \in Digests : FsCreate(p, d) /\ UNCHANGED <<burst, hist, rest>>
    \/ \E p \in Paths : FsDelete(p) /\ UNCHANGED <<burst, hist, rest>>
    \/ \E p \in Paths : proc = "up" /\ PostIndexFile(p) /\ UNCHANGED <<burst, hist, rest>>
    \/ \E d \in Dirs : proc = "up" /\ SetDirectory(d) /\ UNCHANGED <<burst, hist, rest>>
    \/ \E d \in Dirs : proc = "up" /\ DeleteDirectory(d) /\ UNCHANGED <<burst, hist, rest>>
    \/ \E d \in Dirs : WorkerIndexDirectory(d, FALSE) /\ UNCHANGED <<burst, hist, rest>>
    \/ \E s \in Slots : WorkerIndexFile(s, FALSE) /\ UNCHANGED <<burst, hist, rest>>
    \/ \E s \in Slots : WorkerRemoveFile(s, FALSE) /\ UNCHANGED <<burst, hist, rest>>
    \/ \E d \in Dirs :
          proc # "exited" /\ AfterIndexDirectory(d) /\ UNCHANGED <<burst, hist, rest>>
    \/ \E s \in Slots :
          proc # "exited" /\ AfterIndexFile(s) /\ UNCHANGED <<burst, hist, rest>>
    \/ \E s \in Slots :
          proc # "exited" /\ AfterRemoveFile(s) /\ UNCHANGED <<burst, hist, rest>>
    \/ Sigint
    \/ Exit

SpecLifecycle == Init /\ [][NextLifecycle]_vars

\* ------------------------------------------------------------------------
\* One client of the file routes whose requests carry a path, a relative name
\* or no path at all; no directory is watched, the worker is reachable.
NextRequests ==
    \/ \E p \in Paths, d \in Digests : Idle /\ FsCreate(p, d) /\ UNCHANGED <<burst, hist, rest>>
    \/ \E p \in Paths : Idle /\ FsDelete(p) /\ UNCHANGED <<burst, hist, rest>>
    \/ \E p \in Paths \cup BadPaths :
          Idle /\ PostIndexFile(p) /\ UNCHANGED <<burst, hist, rest>>
    \/ \E p \in Paths \cup BadPaths :
          Idle /\ PostReindexFile(p) /\ UNCHANGED <<burst, hist, rest>>
    \/ \E p \in Paths \cup BadPaths :
          Idle /\ DeleteRemoveFile(p) /\ UNCHANGED <<burst, hist, rest>>
    \/ \E s \in Slots : WorkerIndexFile(s, FALSE) /\ UNCHANGED <<burst, hist, rest>>
    \/ \E s \in Slots : WorkerReindexFile(s, FALSE) /\ UNCHANGED <<burst, hist, rest>>
    \/ \E s \in Slots : WorkerRemoveFile(s, FALSE) /\ UNCHANGED <<burst, hist, rest>>
    \/ \E s \in Slots : AfterIndexFile(s) /\ UNCHANGED <<burst, hist, rest>>
    \/ \E s \in Slots : AfterReindexFile(s) /\ UNCHANGED <<burst, hist, rest>>
    \/ \E s \in Slots : AfterRemoveFile(s) /\ UNCHANGED <<burst, hist, rest>>

SpecRequests == Init /\ [][NextRequests]_vars

\* ------------------------------------------------------------------------
\* The backend starts on the registry that earlier runs have left: any set of
\* stored directories, no watcher yet; files come and go meanwhile.
InitStart ==
    /\ disk \in [Paths -> Digests \cup {NoFile}]
    /\ store = {}
    /\ cache = NoEntry
    /\ files = << >>
    /\ directories \in SUBSET DirForms
    /\ watchers = {}
    /\ handles = [f \in DirForms |-> 0]
    /\ ops = [s \in Slots |-> Free]
    /\ setdir = [f \in DirForms |-> "idle"]
    /\ now = 0
    /\ InitHistory
    /\ search = NoSearch
    /\ proc = "starting"
    /\ ui = NoUi

NextStart ==
    \/ Listen
    \/ \E p \in Paths, d \in Digests : FsCreate(p, d) /\ UNCHANGED <<burst, hist, rest>>
    \/ \E s \in Slots : WorkerIndexFile(s, FALSE) /\ UNCHANGED <<burst, hist, rest>>
    \/ \E s \in Slots : AfterIndexFile(s) /\ UNCHANGED <<burst, hist, rest>>

SpecStart == InitStart /\ [][NextStart]_vars

\* ------------------------------------------------------------------------
\* A directory is registered and removed again over a healthy worker while
\* files appear in it.
NextDelete ==
    \/ \E d \in Dirs : SetDirectory(d) /\ UNCHANGED <<burst, hist, rest>>
    \/ \E d \in Dirs : WorkerIndexDirectory(d, FALSE) /\ UNCHANGED <<burst, hist, rest>>
    \/ \E d \in Dirs : AfterIndexDirectory(d) /\ UNCHANGED <<burst, hist, rest>>
    \/ \E d \in Dirs : DeleteDirectory(d) /\ UNCHANGED <<burst, hist, rest>>
    \/ \E p \in Paths, d \in Digests : FsCreate(p, d) /\ UNCHANGED <<burst, hist, rest>>
    \/ \E s \in Slots : WorkerIndexFile(s, FALSE) /\ UNCHANGED <<burst, hist, rest>>
    \/ \E s \in Slots : AfterIndexFile(s) /\ UNCHANGED <<burst, hist, rest>>

SpecDelete == Init /\ [][NextDelete]_vars

\* ------------------------------------------------------------------------
\* A directory and its parent are registered, in either order, over a healthy
\* worker; files under the directory are created, modified and deleted.
Overlapping == {"/", "/d"}

NextOverlap ==
    \/ \E d \in Overlapping : SetDirectory(d) /\ UNCHANGED <<burst, hist, rest>>
    \/ \E d \in Overlapping : WorkerIndexDirectory(d, FALSE) /\ UNCHANGED <<burst, hist, rest>>
    \/ \E d \in Overlapping : AfterIndexDirectory(d) /\ UNCHANGED <<burst, hist, rest>>
    \/ \E p \in Paths, d \in Digests : FsCreate(p, d) /\ UNCHANGED <<burst, hist, rest>>
    \/ \E p \in Paths, d \in Digests : FsModify(p, d) /\ UNCHANGED <<burst, hist, rest>>
    \/ \E p \in Paths : FsDelete(p) /\ UNCHANGED <<burst, hist, rest>>
    \/ \E s \in Slots : WorkerIndexFile(s, FALSE) /\ UNCHANGED <<burst, hist, rest>>
    \/ \E s \in Slots : WorkerReindexFile(s, FALSE) /\ UNCHANGED <<burst, hist, rest>>
    \/ \E s \in Slots : WorkerRemoveFile(s, FALSE) /\ UNCHANGED <<burst, hist, rest>>
    \/ \E s \in Slots : AfterIndexFile(s) /\ UNCHANGED <<burst, hist, rest>>
    \/ \E s \in Slots : AfterReindexFile(s) /\ UNCHANGED <<burst, hist, rest>>
    \/ \E s \in Slots : AfterRemoveFile(s) /\ UNCHANGED <<burst, hist, rest>>

SpecOverlap == Init /\ [][NextOverlap]_vars

\* ------------------------------------------------------------------------
\* The directory list of the UI over a healthy backend and worker: directories
\* are registered, the list is loaded, the user removes a listed directory.
NextRemove ==
    \/ \E f \in DirForms : SetDirectory(f) /\ UNCHANGED <<burst, hist, rest>>
    \/ \E f \in DirForms : WorkerIndexDirectory(f, FALSE) /\ UNCHANGED <<burst, hist, rest>>
    \/ \E f \in DirForms : AfterIndexDirectory(f) /\ UNCHANGED <<burst, hist, rest>>
    \/ LoadDirectories
    \/ \E d \in DirForms : RemoveDirectory(d)
    \/ ExpressRemoveDirectory
    \/ AfterRemoveDirectory

SpecRemove == Init /\ [][NextRemove]_vars

\* ------------------------------------------------------------------------
\* One search response of any content is formatted for display.
InitScores ==
    /\ InitCore
    /\ InitHistory
    /\ search = NoSearch
    /\ proc = "up"
    /\ ui \in {[NoUi EXCEPT !.scores = r] : r \in Responses}

NextScores == FormatResults

SpecScores == InitScores /\ [][NextScores]_vars

\* ------------------------------------------------------------------------
\* The search box: the user types, timers fire, responses arrive in any order.
NextUi ==
    \/ \E q \in Queries \cup {NoQuery} : Type(q)
    \/ TimerFires
    \/ \E s \in Slots : SearchSettles(s)

SpecUi == Init /\ [][NextUi]_vars

\* ========================================================================
\* The claims.

\* Nothing is in flight: no file handler, no set-directory request.
Quiescent == Idle /\ \A f \in DirForms : setdir[f] = "idle"

\* The worker calls issued in this step.
NewCalls == {s \in Slots : ops[s].pc = "free" /\ ops'[s].pc = "called"}

\* C1: every file event a watcher observes issues exactly one worker call, on
\* the path of the event, and the call is the one of the event kind:
\* create -> index_file, modify -> reindex_file, delete -> remove_file.
\* Without an event no watcher call is issued.
C1_EventRouting ==
    [][/\ \A p \in Paths :
            (disk'[p] # disk[p] /\ Watched(p)) =>
                /\ Cardinality(NewCalls) = 1
                /\ \A s \in NewCalls :
                      /\ ops'[s].path = p
                      /\ ops'[s].kind = IF disk[p] = NoFile THEN "index"
                                        ELSE IF disk'[p] = NoFile THEN "remove"
                                        ELSE "reindex"
       /\ (disk' = disk) => \A s \in NewCalls : ops'[s].ev = "api"]_vars

\* C1 witness: a modification of a watched file has put a reindex call on the
\* wire while the index call of its creation is still in flight.
C1_Witness ==
    \E s, t \in Slots :
        /\ ops[s].ev = "change" /\ ops[s].kind = "reindex" /\ ops[s].pc = "called"
        /\ ops[t].ev = "add" /\ ops[t].kind = "index" /\ ops[t].path = ops[s].path
        /\ disk[ops[s].path] # NoFile

\* C2: for one path, index_file, reindex_file and remove_file never interleave.
\* An operation runs from its worker call to its registry update; a second
\* request on the path may wait, but while one operation stands between its
\* step on the store and its registry update no other operation on the path
\* takes a step.
C2_PerPathSerialized ==
    [][\A s, t \in Slots :
          (/\ s # t
           /\ ops[s].pc \in {"ok", "err"}
           /\ ops[t].pc # "free"
           /\ ops[t].path = ops[s].path) => ops'[t] = ops[t]]_vars

\* C3: a file record exists for a path if and only if the vector store holds a
\* point of that path.  Stated for the states at rest (no reindex and no other
\* request in flight), and with the records of files that have no chunk (the
\* zero-byte file, the skipped file) set aside: the claim fails without them.
HasChunkedRecord(p) ==
    /\ p \in DOMAIN files
    /\ files[p].checksum # Null
    /\ ChunkCount(files[p].checksum) > 0

C3_RecordIffChunks ==
    Quiescent => \A p \in Paths : HasChunkedRecord(p) <=> (PointsOfFile(p) # {})

\* C4: outside a reindex window (here: at rest) every point of the store has a
\* file record for its path whose checksum is the point's payload digest.
C4_NoOrphanPoints ==
    Quiescent =>
        \A pt \in store : /\ pt.file_path \in DOMAIN files
                          /\ files[pt.file_path].checksum = pt.file_hash

\* C5: once a file under the watched directory is gone from disk and every
\* handler on its path has finished, the store holds no point of the path and
\* the registry no record of it.
C5_DeletePropagates ==
    \A p \in Paths :
        (disk[p] = NoFile /\ InFlight(p) = {}) =>
            (PointsOfFile(p) = {} /\ p \notin DOMAIN files)

\* C6: the events of one path within one coalescing window lead to one
\* operation at most; the others are dropped.
C6_OneOperationPerWindow == \A p \in Paths : burst[p] <= 1

\* C7: once a directory is registered no change under it is missed for good:
\* when nothing is in flight any more, the store holds, for every supported
\* file under the directory, exactly the points of its current bytes.
C7_IndexConverges ==
    \A d \in directories :
        Quiescent =>
            \A p \in Paths :
                (Under(p, d) /\ Supported(p)) =>
                    PointsOfFile(p) = IF disk[p] = NoFile THEN {} ELSE PointsFor(p, disk[p])

\* C8: when the reindex calls on a path have all ended, the points of the path
\* and its file record are what one reindex run alone, after the others, leaves:
\* the points of one content and the record with that content's digest.
C8_ReindexSerializable ==
    \A p \in Paths :
        (Supported(p) /\ InFlight(p) = {}) =>
            \E d \in Digests : /\ PointsOfFile(p) = PointsFor(p, d)
                               /\ p \in DOMAIN files
                               /\ files[p].checksum = d

\* C9: index_file(p) then remove_file(p), both succeeding, leave no point of p
\* in the store and no record of p in the registry.
C9_IndexThenRemove ==
    (/\ Idle
     /\ Len(hist) = 2
     /\ hist[1].kind = "index" /\ hist[1].ok
     /\ hist[2].kind = "remove" /\ hist[2].ok
     /\ hist[1].path = hist[2].path) =>
        (PointsOfFile(hist[2].path) = {} /\ hist[2].path \notin DOMAIN files)

\* C9 witness: the round trip has run on a supported file that had chunks.
C9_Witness ==
    /\ Idle
    /\ Len(hist) = 2
    /\ hist[1].kind = "index" /\ hist[1].ok
    /\ hist[2].kind = "remove" /\ hist[2].ok
    /\ hist[1].path = hist[2].path
    /\ Supported(hist[1].path)
    /\ hist[1].bytes >= 1

\* Slot s carries a successful index request that follows, with nothing in
\* between, a successful index request on the same path and the same bytes,
\* and takes a step.
SecondIndexStep(s) ==
    /\ ops[s].kind = "index"
    /\ ops'[s] # ops[s]
    /\ ops[s].pc = "ok" \/ ops'[s].pc = "ok"
    /\ hist # << >>
    /\ hist[Len(hist)] = [kind |-> "index", ok |-> TRUE, path |-> ops[s].path,
                          bytes |-> disk[ops[s].path]]

LastEnded == hist[Len(hist)]

C12_OneWatcherPerKey ==
    \A f \in DirForms : handles[f] = IF f \in status THEN 1 ELSE 0

\* C12 witness: a watcher was started, has seen a file appear, and was stopped
\* while the handler of that event is in flight; no watcher is left open.
C12_Witness ==
    /\ status = {}
    /\ \A f \in DirForms : handles[f] = 0
    /\ \E s \in Slots : ops[s].ev = "add" /\ ops[s].pc = "called"

\* C13: no two registrations and no two watchers denote the same directory,
\* whatever the forms under which the directory was submitted.
C13_UniqueByDirectory ==
    /\ \A a, b \in directories : Resolve(a) = Resolve(b) => a = b
    /\ \A a, b \in watchers : Resolve(a) = Resolve(b) => a = b

\* C14: when DELETE /directory/:id has removed a registration, no watcher is
\* active for its path, and a file event issues a worker call only under a
\* directory that is registered.
C14_DeleteStopsWatching ==
    [][/\ \A d \in DirForms : (d \in directories /\ d \notin directories') => d \notin watchers'
       /\ \A s \in NewCalls :
             ops'[s].ev # "api" => \E d \in directories : Under(ops'[s].path, d)]_vars

\* C15: an event on a path whose extension is not supported triggers no
\* operation and writes no file record: no handler is ever in flight on such
\* a path and the registry never has a row for it.
C15_UnsupportedIgnored ==
    \A p \in Paths : ~Supported(p) => (InFlight(p) = {} /\ p \notin DOMAIN files)

\* The handler in slot s belongs to a watcher event, its worker call was
\* rejected, and it ends in this step.
DropsFailedEvent(s) ==
    /\ ops[s].ev \in {"add", "change", "unlink"}
    /\ ops[s].pc = "err"
    /\ ops'[s].pc = "free"

\* C16: the handler of an event whose processing failed ends without a trace:
\* the file registry is as it was, the watchers are as they were (so the events
\* that follow are routed as C1 says).
C16_FailedEventDropped ==
    [][\A s \in Slots :
          DropsFailedEvent(s) =>
              (files' = files /\ watchers' = watchers /\ handles' = handles)]_vars

\* C16 witness: the file of an 'add' event was gone when the worker served the
\* call (404); the handler holds the rejected call, the watcher of the
\* directory is active, and the worker has served the call of the 'unlink'
\* event that followed on the same path.
C16_Witness ==
    \E s, t \in Slots :
        /\ ops[s].ev = "add" /\ ops[s].pc = "err"
        /\ disk[ops[s].path] = NoFile
        /\ Watched(ops[s].path)
        /\ ops[t].ev = "unlink" /\ ops[t].pc = "ok" /\ ops[t].path = ops[s].path

\* C17: when an index or reindex call on a file that exists fails, the handler
\* leaves the file recorded with status failed.
C17_FailureMarksFailed ==
    [][\A s \in Slots :
          (/\ ops[s].kind \in {"index", "reindex"}
           /\ ops[s].pc = "err"
           /\ disk[ops[s].path] # NoFile
           /\ ops'[s].pc = "free") =>
              (/\ ops[s].path \in DOMAIN files'
               /\ files'[ops[s].path].status = "failed")]_vars

\* C18: a file request whose path is missing or not absolute is answered 400,
\* and the registry, the watchers and the store are after it what they were
\* before.
C18_MalformedPathRejected ==
    [][\A s \in Slots :
          (/\ ops[s].ev = "api"
           /\ ~WellFormed(ops[s].path)
           /\ ops[s].pc \in {"ok", "err"}
           /\ ops'[s].pc = "free") =>
              (/\ ResStatus(s) = 400
               /\ files' = files /\ store' = store
               /\ directories' = directories /\ watchers' = watchers)]_vars

\* The status of the file record of p; absent when there is none.
FileStatus(p) == IF p \in DOMAIN files THEN files[p].status ELSE "absent"

FileStatusAfter(p) == IF p \in DOMAIN files' THEN files'[p].status ELSE "absent"

\* absent -> pending -> indexed <-> pending -> absent, pending -> failed ->
\* pending; remove and delete lead to absent from every status.
StatusMoves ==
    {<<"absent", "pending">>, <<"pending", "indexed">>, <<"indexed", "pending">>,
     <<"pending", "failed">>, <<"failed", "pending">>,
     <<"pending", "absent">>, <<"indexed", "absent">>, <<"failed", "absent">>}

\* C19: every change of the status of a file is a move of the state machine.
C19_StatusStateMachine ==
    [][\A p \in Paths :
          FileStatusAfter(p) # FileStatus(p) =>
              <<FileStatus(p), FileStatusAfter(p)>> \in StatusMoves]_vars

\* C20: the process exits only when no file operation is in flight: none is
\* cut off between its worker call and its registry update.
C20_NoOperationCutOff ==
    [][(proc # "exited" /\ proc' = "exited") => \A s \in Slots : ops[s].pc = "free"]_vars

\* The search requests that the front end sends in this step.
NewReqs == {s \in Slots : ui.reqs[s] = NoQuery /\ ui'.reqs[s] # NoQuery}

EndedSetDirectory == {f \in DirForms : setdir[f] \in {"ok", "err"} /\ setdir'[f] = "idle"}

\* C22: set-directory attaches the watcher only after the initial index has
\* succeeded: a request whose index-directory call failed answers 500 and
\* starts no watcher, a request whose call succeeded has a watcher on its path
\* when it answers 200; and no watcher appears while the index is awaited.
C22_WatcherAfterIndex ==
    [][/\ \A f \in EndedSetDirectory :
            /\ setdir[f] = "err" => SetDirectoryStatus(f) = 500 /\ watchers' = watchers
            /\ setdir[f] = "ok" => SetDirectoryStatus(f) = 200 /\ f \in watchers'
       /\ EndedSetDirectory = {} => watchers' = watchers]_vars

\* One request failed and left no watcher, another succeeded and left one.
C22_Witness ==
    /\ directories = {"/d", "/d/"}
    /\ watchers = {"/d/"}
    /\ \A f \in DirForms : setdir[f] = "idle"

\* C23: when the server has started listening and initializeWatchers has run,
\* status() lists exactly the directory paths that the registry stores; no
\* watcher runs before.
C23_StartWatchesRegistry ==
    [][/\ proc = "starting" => status = {}
       /\ (proc = "starting" /\ proc' = "up") => status' = directories']_vars

\* The backend has started on a registry of two overlapping directories.
C23_Witness ==
    /\ proc = "up"
    /\ directories = {"/", "/d"}
    /\ status = {"/", "/d"}
    /\ handles["/"] = 1 /\ handles["/d"] = 1

\* The search requests of the hook that have not settled.
PendingReqs == {s \in Slots : ui.reqs[s] # NoQuery}

\* C24: a search that is overtaken by a later one never replaces the later
\* one's results: when every request has settled, the results on display are
\* those returned for lastQuery, in whatever order the responses arrived.
C24_LatestSearchWins ==
    (PendingReqs = {} /\ ui.lastQuery # NoQuery) => ui.results = ui.lastQuery

\* C25: isSearching is true in every state in which a search request is in
\* flight, overlapping searches included.
C25_SearchingWhilePending ==
    PendingReqs # {} => ui.isSearching

\* The score that the hook reads from result i of the response on display.
ShownScore(i) == ScoreOrZero(ui.scores[i])

\* C26: for every non-empty response (scores positive, zero, negative or
\* missing) every match value on display is an integer from 1 to 100, every
\* result with the highest score is shown as 100, and a result with a higher
\* score never has a lower match value.
C26_MatchNormalized ==
    ui.matches # << >> =>
        /\ DOMAIN ui.matches = DOMAIN ui.scores
        /\ \A i \in DOMAIN ui.matches :
              /\ ui.matches[i] \in 1 .. 100
              /\ (\A j \in DOMAIN ui.scores : ShownScore(j) <= ShownScore(i))
                    => ui.matches[i] = 100
              /\ \A j \in DOMAIN ui.scores :
                    ShownScore(i) > ShownScore(j) => ui.matches[i] >= ui.matches[j]

\* A response with a positive, a missing and a negative score is on display.
C26_Witness ==
    /\ ui.scores = <<Scored(4), Unscored, Scored(-3)>>
    /\ ui.matches = <<100, 1, 1>>

\* C27: removeDirectory(path) of the UI reaches a backend route that deletes
\* the registration: a call for a listed directory over a healthy backend
\* reports success, and when it reports success the path is registered no
\* more.
C27_RemoveDirectoryRemoves ==
    [][(ui.remove.pc \in {"ok", "notfound"} /\ ui'.remove.pc \in {"success", "failure"})
          => /\ ui'.remove.pc = "success"
             /\ ui'.remove.path \notin directories']_vars

\* C28: while the backend runs and no set-directory request is in progress,
\* every directory that the registry stores has an active watcher, the
\* directories whose initial index failed included.
C28_RegisteredIsWatched ==
    (proc = "up" /\ \A f \in DirForms : setdir[f] = "idle") => directories \subseteq status

\* C29: one filesystem event on a file triggers at most one indexer operation,
\* also when a registered directory is an ancestor of another: no create,
\* modify or delete of a file issues two worker calls for its path.
C29_OneOperationPerEvent ==
    [][\A p \in Paths : Cardinality({s \in NewCalls : ops'[s].path = p}) <= 1]_vars

\* C30: DELETE /directory/:id changes the directories table only: the step
\* that removes a registration leaves every file record, every point of the
\* vector store and the search cache as they were and issues no worker call,
\* so the files under the directory are found by a search as before.
C30_DeleteKeepsFiles ==
    [][(\E d \in directories : d \notin directories')
          => /\ files' = files
             /\ store' = store
             /\ cache' = cache
             /\ NewCalls = {}
             /\ ops' = ops]_vars

\* The registration is gone; the record and the points of a file under the
\* directory are there.
C30_Witness ==
    /\ directories = {}
    /\ "/d/a.txt" \in DOMAIN files
    /\ files["/d/a.txt"].status = "indexed"
    /\ PointsOfFile("/d/a.txt") # {}

====
